---- MODULE Spec2Model ----
(***************************************************************************)
(* A model of transfer-progress (src/src/lib.rs): a worker thread copies a *)
(* reader into a writer and publishes its progress into two atomics        *)
(* (TransferState.transferred, TransferState.complete); observers poll     *)
(* them through &Transfer; finish(self) joins the worker.                  *)
(*                                                                         *)
(* The two atomics are written with Ordering::Release and read with        *)
(* Ordering::Acquire, so they are modelled with the release/acquire        *)
(* memory model and not as sequentially consistent cells: each atomic is   *)
(* its modification order (a sequence of writes), each observer has a view *)
(* (for each atomic, the oldest write it may still read), a load reads any *)
(* write at or after the view (coherence), and an acquire load that reads  *)
(* a release store joins the view the store released.                      *)
(***************************************************************************)
EXTENDS Integers, Sequences, FiniteSets

\* ------------------------------------------------------------------ bounds
\* The source yields at most MaxChunks non-empty chunks before it ends.
MaxChunks == 2
\* The clock (Instant::now) is followed for MaxTime seconds.
MaxTime == 1

\* Threads that hold a &Transfer and poll it.
Observers == {"o1", "o2"}
\* The byte counts a read may return for a non-empty chunk.
ChunkSizes == {1, 2}
\* The values the caller hands to new() as reader and as writer.
Readers == {"r"}
Writers == {"w"}
\* The io::Error a failing read, and a failing write, returns.
ReadErrors == {"read_err"}
WriteErrors == {"write_err"}

VARIABLES
    transferred,    \* state.transferred: its modification order, a sequence of u64
    complete,       \* state.complete: its modification order, [val, view] per store
    wpc,            \* the worker closure's position
    reader,         \* the reader the worker closure owns ("-" once moved or dropped)
    writer,         \* the writer the worker closure owns ("-" once moved or dropped)
    buf,            \* bytes io::copy has read and not yet written
    res,            \* `res`, the result of io::copy (line 61)
    outcome,        \* the worker thread's result, as the JoinHandle holds it
    handle,         \* the Transfer value: "constructing", "live" or "consumed"
    start_time,     \* Transfer.start_time
    now,            \* the monotonic clock
    view,           \* per observer: the oldest write of each atomic it may read
    lastT,          \* per observer: what its latest read of the counter returned (-1: none)
    sawTrue,        \* per observer: a true is_complete() result happens-before its next call
    call,           \* the latest query and what it returned
    fpc,            \* the thread calling finish(): idle, joining, returned, panicked
    finishRet,      \* what finish() returned
    hist,           \* history: what the environment did and what the calls saw
    size            \* SizedTransfer.size (held at 0, and never read, for a plain Transfer)

vars == <<transferred, complete, wpc, reader, writer, buf, res, outcome, handle,
          start_time, now, view, lastT, sawTrue, call, fpc, finishRet, hist,
          size>>

\* ----------------------------------------------------------------- helpers
Last(s) == s[Len(s)]

Max(a, b) == IF a >= b THEN a ELSE b

RECURSIVE Sum(_)
Sum(s) == IF s = <<>> THEN 0 ELSE s[1] + Sum(Tail(s))

\* io::Result values of the worker, one record shape for all. io::copy's
\* Ok(count) carries no reader or writer: line 63 drops the count and puts
\* them in.
NoResult == [kind |-> "None", reader |-> "-", writer |-> "-", err |-> "-"]

Ok(r, w) == [kind |-> "Ok", reader |-> r, writer |-> w, err |-> "-"]

Err(e) == [kind |-> "Err", reader |-> "-", writer |-> "-", err |-> e]

\* thread::Result's Err(payload): the worker closure unwound.
Panicked == [kind |-> "Panic", reader |-> "-", writer |-> "-", err |-> "-"]

\* The latest query: op, the method; flag or ret, what it returned (a bool or
\* a number; saturated: the number is u64::MAX); for transferred(), prev:
\* what the caller's previous read of the counter returned (-1: none); for
\* is_complete() and transferred(), pastTrue: whether a true is_complete()
\* result happened-before the call.
\* For the SizedTransfer queries, read: the counter value the call loaded (-1:
\* none); fault: how the call's arithmetic left the numbers ("-": it did not).
NoCall == [op |-> "none", flag |-> FALSE, ret |-> 0, saturated |-> FALSE,
           prev |-> -1, pastTrue |-> FALSE, read |-> -1, fault |-> "-"]

\* ------------------------------------------------------------ construction
\* #[derive(Default)] TransferState: transferred = 0, complete = false. The
\* initial values happen-before everything (Arc::new precedes thread::spawn
\* and the return of new()), so every view starts at write 1.
\* (DefaultFlagTrue is the fault of a flag constructed as true.)
DefaultFlagTrue == [transferred |-> <<0>>, complete |-> <<[val |-> TRUE, view |-> 1]>>]

TransferStateDefault == [transferred |-> <<0>>, complete |-> <<[val |-> FALSE, view |-> 1]>>]

\* Transfer::new up to thread::spawn (lines 50-64): the state exists and the
\* worker runs; start_time is taken only afterwards (line 66, action New).
InitTransfer ==
    /\ transferred = TransferStateDefault.transferred
    /\ complete = TransferStateDefault.complete
    /\ wpc = "read"
    /\ reader \in Readers
    /\ writer \in Writers
    /\ buf = 0
    /\ res = NoResult
    /\ outcome = NoResult
    /\ handle = "constructing"
    /\ start_time = 0
    /\ now = 0
    /\ view = [o \in Observers |-> [t |-> 1, c |-> 1]]
    /\ lastT = [o \in Observers |-> -1]
    /\ sawTrue = [o \in Observers |-> FALSE]
    /\ call = NoCall
    /\ fpc = "idle"
    /\ finishRet = NoResult
    /\ hist = [given |-> [reader |-> reader, writer |-> writer, size |-> size],
               published |-> <<>>, bytesRead |-> 0, bytesWritten |-> 0,
               ioFailure |-> "-", failures |-> 0, flagStores |-> 0,
               finishCalls |-> 0, delivered |-> 0,
               finishSawTrue |-> FALSE, queriedAfterFinish |-> FALSE]

\* A plain Transfer.
Init ==
    /\ size = 0
    /\ InitTransfer

\* Self { start_time: Instant::now(), state, handle } (lines 65-69).
New ==
    /\ handle = "constructing"
    /\ handle' = "live"
    /\ start_time' = now
    /\ UNCHANGED <<size, transferred, complete, wpc, reader, writer, buf, res, outcome,
                   now, view, lastT, sawTrue, call, fpc, finishRet, hist>>

\* The monotonic clock advances.
Tick ==
    /\ now < MaxTime
    /\ now' = now + 1
    /\ UNCHANGED <<size, transferred, complete, wpc, reader, writer, buf, res, outcome,
                   handle, start_time, view, lastT, sawTrue, call, fpc, finishRet,
                   hist>>

\* ------------------------------------------------------------------ worker
\* The progress callback (lines 53-59): fetch_add(bytes as u64, Release). A
\* read-modify-write reads the latest write of the modification order and
\* appends its own. (The u64 wraps at 2^64, out of reach of any transfer
\* followed here.) StoreDelta is the fault of a plain store of the delta,
\* FetchAddTotal that of adding the running total instead of the delta.
StoreDelta(bytes) == Append(transferred, bytes)

FetchAddTotal(bytes) == Append(transferred, Last(transferred) + Last(transferred) + bytes)

FetchAdd(bytes) == Append(transferred, Last(transferred) + bytes)

\* state_clone.complete.store(true, Ordering::Release) (line 62): the store
\* releases the worker's view, which holds every write it made before.
\* (StoreRelaxed is the fault of Ordering::Relaxed: nothing is released.)
StoreRelaxed == Append(complete, [val |-> TRUE, view |-> 1])

StoreRelease == Append(complete, [val |-> TRUE, view |-> Len(transferred)])

\* Where the closure continues once io::copy has returned r (lines 61-62):
\* the result is kept in `res` and the flag is stored on either outcome.
\* (AfterCopyTry is the fault of `io::copy(..)?`: an error returns at once.)
AfterCopyTry(r) == IF r.kind = "Err" THEN "ret" ELSE "store"

AfterCopy(r) == "store"

\* res.map(|_| (reader.into_inner(), writer)) (line 63).
MapResult(r) == IF r.kind = "Ok" THEN Ok(reader, writer) ELSE r

\* ProgressReader::read inside io::copy: the inner read returned Ok(n), n > 0;
\* the callback publishes n; io::copy goes on to write_all the n bytes.
WorkerReadChunk(n) ==
    /\ wpc = "read"
    /\ Len(hist.published) < MaxChunks
    /\ transferred' = FetchAdd(n)
    /\ buf' = n
    /\ wpc' = "write"
    /\ hist' = [hist EXCEPT !.published = Append(@, n), !.bytesRead = @ + n]
    /\ UNCHANGED <<size, complete, reader, writer, res, outcome, handle, start_time,
                   now, view, lastT, sawTrue, call, fpc, finishRet>>

\* The inner read returned Ok(0), the end of the stream: ProgressReader calls
\* the callback with 0 all the same, then io::copy returns Ok.
WorkerReadEof ==
    /\ wpc = "read"
    /\ transferred' = FetchAdd(0)
    /\ res' = Ok("-", "-")
    /\ wpc' = AfterCopy(res')
    /\ hist' = [hist EXCEPT !.published = Append(@, 0)]
    /\ UNCHANGED <<size, complete, reader, writer, buf, outcome, handle, start_time,
                   now, view, lastT, sawTrue, call, fpc, finishRet>>

\* The inner read returned Err(e) (not Interrupted, which io::copy retries
\* without any effect): `?` in ProgressReader::read skips the callback and
\* io::copy returns the error.
WorkerReadErr(e) ==
    /\ wpc = "read"
    /\ res' = Err(e)
    /\ wpc' = AfterCopy(res')
    /\ hist' = [hist EXCEPT !.ioFailure = e, !.failures = @ + 1]
    /\ UNCHANGED <<size, transferred, complete, reader, writer, buf, outcome, handle,
                   start_time, now, view, lastT, sawTrue, call, fpc, finishRet>>

\* writer.write_all(chunk) succeeded: the chunk is in the sink.
WorkerWriteOk ==
    /\ wpc = "write"
    /\ buf' = 0
    /\ wpc' = "read"
    /\ hist' = [hist EXCEPT !.bytesWritten = @ + buf]
    /\ UNCHANGED <<size, transferred, complete, reader, writer, res, outcome, handle,
                   start_time, now, view, lastT, sawTrue, call, fpc, finishRet>>

\* writer.write_all(chunk) failed with e after k < n bytes went through:
\* io::copy returns the error; the chunk was published when it was read.
WorkerWriteErr(e, k) ==
    /\ wpc = "write"
    /\ k < buf
    /\ buf' = 0
    /\ res' = Err(e)
    /\ wpc' = AfterCopy(res')
    /\ hist' = [hist EXCEPT !.bytesWritten = @ + k, !.ioFailure = e,
                            !.failures = @ + 1]
    /\ UNCHANGED <<size, transferred, complete, reader, writer, outcome, handle,
                   start_time, now, view, lastT, sawTrue, call, fpc, finishRet>>

\* R::read or W::write panics inside io::copy: the closure unwinds from line
\* 61, reader and writer are dropped, line 62 is never run and the thread
\* ends with Err(payload).
WorkerPanic ==
    /\ wpc \in {"read", "write"}
    /\ wpc' = "panicked"
    /\ outcome' = Panicked
    /\ reader' = "-"
    /\ writer' = "-"
    /\ buf' = 0
    /\ UNCHANGED <<size, transferred, complete, res, handle, start_time, now, view,
                   lastT, sawTrue, call, fpc, finishRet, hist>>

\* Line 62.
WorkerStoreComplete ==
    /\ wpc = "store"
    /\ complete' = StoreRelease
    /\ wpc' = "ret"
    /\ hist' = [hist EXCEPT !.flagStores = @ + 1]
    /\ UNCHANGED <<size, transferred, reader, writer, buf, res, outcome, handle,
                   start_time, now, view, lastT, sawTrue, call, fpc, finishRet>>

\* Line 63 and the end of the thread: the closure's value becomes the
\* thread's result; reader and writer are moved into it or dropped.
WorkerReturn ==
    /\ wpc = "ret"
    /\ outcome' = MapResult(res)
    /\ reader' = "-"
    /\ writer' = "-"
    /\ wpc' = "done"
    /\ UNCHANGED <<size, transferred, complete, buf, res, handle, start_time, now,
                   view, lastT, sawTrue, call, fpc, finishRet, hist>>

Worker ==
    \/ \E n \in ChunkSizes : WorkerReadChunk(n)
    \/ WorkerReadEof
    \/ \E e \in ReadErrors : WorkerReadErr(e)
    \/ WorkerWriteOk
    \/ \E e \in WriteErrors, k \in 0..(buf - 1) : WorkerWriteErr(e, k)
    \/ WorkerPanic
    \/ WorkerStoreComplete
    \/ WorkerReturn

\* --------------------------------------------------------------- observers
\* The writes of state.complete an Acquire load by o may read: any write not
\* older than the one o has already read or learnt of (read-read coherence).
ReadableComplete(o) == view[o].c .. Len(complete)

\* The same for state.transferred.
ReadableTransferred(o) == view[o].t .. Len(transferred)

\* (transferred as f64 / secs).round() as u64 (line 165), with the elapsed
\* time in whole seconds: x / 0.0 is NaN for x = 0 and +inf otherwise, and
\* `as u64` turns NaN into 0 and saturates +inf to u64::MAX (no panic);
\* f64::round rounds half away from zero.
SpeedOf(t, secs) ==
    IF secs = 0
    THEN [ret |-> 0, saturated |-> t > 0]
    ELSE [ret |-> (2 * t + secs) \div (2 * secs), saturated |-> FALSE]

Query(o, op, flag, ret, saturated) ==
    [op |-> op, flag |-> flag, ret |-> ret, saturated |-> saturated,
     prev |-> IF op = "transferred" THEN lastT[o] ELSE -1,
     pastTrue |-> IF op \in {"is_complete", "transferred"} THEN sawTrue[o] ELSE FALSE,
     read |-> -1, fault |-> "-"]

\* Every query takes &self: it needs a Transfer that was not moved away, and
\* nothing else: the state is atomics, no lock. (BorrowLocked is the fault of
\* a lock that the worker holds while it writes a chunk.)
BorrowLocked ==
    /\ handle = "live"
    /\ wpc # "write"
    /\ hist' = [hist EXCEPT !.queriedAfterFinish = @ \/ hist.finishCalls > 0]

Borrow ==
    /\ handle = "live"
    /\ hist' = [hist EXCEPT !.queriedAfterFinish = @ \/ hist.finishCalls > 0]

\* is_complete (lines 107-111): self.state.complete.load(Ordering::Acquire).
\* Reading the worker's release store joins the view it released.
IsComplete(o) ==
    /\ Borrow
    /\ \E j \in ReadableComplete(o) :
        /\ view' = [view EXCEPT ![o] = [t |-> Max(@.t, complete[j].view), c |-> j]]
        /\ sawTrue' = [sawTrue EXCEPT ![o] = @ \/ complete[j].val]
        /\ call' = Query(o, "is_complete", complete[j].val, 0, FALSE)
    /\ UNCHANGED <<size, transferred, complete, wpc, reader, writer, buf, res, outcome,
                   handle, start_time, now, lastT, fpc, finishRet>>

\* transferred (lines 128-132): self.state.transferred.load(Ordering::Acquire).
Transferred(o) ==
    /\ Borrow
    /\ \E i \in ReadableTransferred(o) :
        /\ view' = [view EXCEPT ![o].t = i]
        /\ lastT' = [lastT EXCEPT ![o] = transferred[i]]
        /\ call' = Query(o, "transferred", FALSE, transferred[i], FALSE)
    /\ UNCHANGED <<size, transferred, complete, wpc, reader, writer, buf, res, outcome,
                   handle, start_time, now, sawTrue, fpc, finishRet>>

\* running_time (lines 146-148): self.start_time.elapsed().
RunningTime(o) ==
    /\ Borrow
    /\ call' = Query(o, "running_time", FALSE, now - start_time, FALSE)
    /\ UNCHANGED <<size, transferred, complete, wpc, reader, writer, buf, res, outcome,
                   handle, start_time, now, view, lastT, sawTrue, fpc, finishRet>>

\* speed (lines 164-166): one transferred() and one running_time().
Speed(o) ==
    /\ Borrow
    /\ \E i \in ReadableTransferred(o) :
        LET s == SpeedOf(transferred[i], now - start_time) IN
        /\ view' = [view EXCEPT ![o].t = i]
        /\ lastT' = [lastT EXCEPT ![o] = transferred[i]]
        /\ call' = Query(o, "speed", FALSE, s.ret, s.saturated)
    /\ UNCHANGED <<size, transferred, complete, wpc, reader, writer, buf, res, outcome,
                   handle, start_time, now, sawTrue, fpc, finishRet>>

\* Transfer is Sync (lines 24-32 hold an Arc of atomics and a JoinHandle), so
\* several threads poll one &Transfer and may synchronise with each other
\* (a channel, a lock, a join): what a has read happens-before what b does
\* next, so b's view joins a's.
Handoff(a, b) ==
    /\ a # b
    /\ handle = "live"
    /\ view' = [view EXCEPT ![b] = [t |-> Max(@.t, view[a].t),
                                    c |-> Max(@.c, view[a].c)]]
    /\ sawTrue' = [sawTrue EXCEPT ![b] = @ \/ sawTrue[a]]
    /\ <<view', sawTrue'>> # <<view, sawTrue>>
    /\ UNCHANGED <<size, transferred, complete, wpc, reader, writer, buf, res, outcome,
                   handle, start_time, now, lastT, call, fpc, finishRet, hist>>

\* ------------------------------------------------------------------ finish
\* finish(self) (line 88) takes the Transfer by value: the handle is moved
\* into the call and no borrow of it can exist or be made afterwards.
\* (FinishBorrowed is the fault of a finish(&self).)
FinishBorrowed == "live"

FinishSelf == "consumed"

\* JoinHandle::join (line 89) returns once the thread has ended, normally or
\* by unwinding. (JoinNoWait is the fault of a finish that does not wait.)
JoinNoWait == TRUE

JoinReady == wpc \in {"done", "panicked"}

FinishCall ==
    /\ handle = "live"
    /\ handle' = FinishSelf
    /\ fpc' = "joining"
    /\ hist' = [hist EXCEPT !.finishCalls = @ + 1,
                            !.finishSawTrue = \E o \in Observers : sawTrue[o]]
    /\ UNCHANGED <<size, transferred, complete, wpc, reader, writer, buf, res, outcome,
                   start_time, now, view, lastT, sawTrue, call, finishRet>>

\* self.handle.join().unwrap() (line 89): join yields Ok(the closure's value)
\* or Err(panic payload); unwrap returns the former and panics on the latter.
FinishJoin ==
    /\ fpc = "joining"
    /\ JoinReady
    /\ IF outcome.kind = "Panic"
       THEN /\ fpc' = "panicked"
            /\ UNCHANGED <<finishRet, hist>>
       ELSE /\ fpc' = "returned"
            /\ finishRet' = outcome
            /\ hist' = [hist EXCEPT !.delivered = @ + 1]
    /\ outcome' = NoResult
    /\ UNCHANGED <<size, transferred, complete, wpc, reader, writer, buf, res, handle,
                   start_time, now, view, lastT, sawTrue, call>>

\* ----------------------------------------------------------- specification
Next ==
    \/ New
    \/ Tick
    \/ Worker
    \/ \E o \in Observers : IsComplete(o)
    \/ \E o \in Observers : Transferred(o)
    \/ \E o \in Observers : RunningTime(o)
    \/ \E o \in Observers : Speed(o)
    \/ \E a \in Observers, b \in Observers : Handoff(a, b)
    \/ FinishCall
    \/ FinishJoin

Spec == Init /\ [][Next]_vars

\* ----------------------------------------------------------- SizedTransfer
\* The sizes a caller may declare: none of it is checked against the stream,
\* which yields 0 to 4 bytes here, so the stream may end short of the size,
\* meet it or pass it.
Sizes == {0, 1, 3}

\* The thread that polls the SizedTransfer: what is checked of its queries
\* is about one call and the counter value that call loaded.
SizedObservers == {"o1"}

\* The build's overflow-checks setting: on (debug), a u64 subtraction that
\* overflows panics; off (release), it wraps around.
OverflowChecks == BOOLEAN

\* SizedTransfer::new (lines 229-234): a Transfer and the size as given.
SizedInit ==
    /\ size \in Sizes
    /\ InitTransfer

\* self.size (line 252). (SizeOfCounter is the fault of returning the bytes
\* moved so far.)
SizeOfCounter == Last(transferred)

SizeOf == size

\* a - b on u64 (lines 271 and 341). A wrapped difference is 2^64 - (b - a),
\* which is written as fault "wrapped" with ret = b - a.
U64Sub(a, b, checks) ==
    IF b <= a THEN [ret |-> a - b, fault |-> "-"]
    ELSE IF checks THEN [ret |-> 0, fault |-> "panic"]
    ELSE [ret |-> b - a, fault |-> "wrapped"]

\* self.size - self.inner.transferred() (line 271). (RemainingSwapped is the
\* fault of the operands in the other order.)
RemainingSwapped(sz, t, checks) == U64Sub(t, sz, checks)

RemainingOf(sz, t, checks) == U64Sub(sz, t, checks)

\* self.transferred() as f64 / self.size as f64 (line 311): the fraction
\* ret / sz; an f64 division by zero does not panic, it gives NaN for 0 / 0
\* and +infinity otherwise.
FractionOf(t, sz) ==
    IF sz # 0 THEN [ret |-> t, fault |-> "-"]
    ELSE IF t = 0 THEN [ret |-> 0, fault |-> "nan"]
    ELSE [ret |-> t, fault |-> "inf"]

\* eta (lines 337-344) from the one counter value t it loaded: None for
\* t = 0 (flag FALSE), else Some of (secs / t) * remaining, the duration
\* ret / t seconds. A wrapped remaining is 2^64 as an f64: the product is 0
\* for secs = 0, passes Duration's range and makes Duration::from_secs_f64
\* panic for secs >= t, and is a duration of about 2^64 * secs / t seconds
\* otherwise (fault "wrapped").
EtaOf(sz, t, secs, checks) ==
    LET r == U64Sub(sz, t, checks) IN
    IF t = 0 THEN [flag |-> FALSE, ret |-> 0, fault |-> "-"]
    ELSE IF r.fault = "-" THEN [flag |-> TRUE, ret |-> secs * r.ret, fault |-> "-"]
    ELSE IF r.fault = "panic" THEN [flag |-> FALSE, ret |-> 0, fault |-> "panic"]
    ELSE IF secs = 0 THEN [flag |-> TRUE, ret |-> 0, fault |-> "-"]
    ELSE IF secs >= t THEN [flag |-> FALSE, ret |-> 0, fault |-> "panic"]
    ELSE [flag |-> TRUE, ret |-> secs, fault |-> "wrapped"]

SizedQuery(op, flag, ret, read, fault) ==
    [op |-> op, flag |-> flag, ret |-> ret, saturated |-> FALSE, prev |-> -1,
     pastTrue |-> FALSE, read |-> read, fault |-> fault]

\* size (lines 251-253).
Size(o) ==
    /\ Borrow
    /\ call' = SizedQuery("size", FALSE, SizeOf, -1, "-")
    /\ UNCHANGED <<size, transferred, complete, wpc, reader, writer, buf, res,
                   outcome, handle, start_time, now, view, lastT, sawTrue, fpc,
                   finishRet>>

\* remaining (lines 270-272): one load of the counter, one subtraction.
Remaining(o) ==
    /\ Borrow
    /\ \E i \in ReadableTransferred(o), checks \in OverflowChecks :
        LET r == RemainingOf(size, transferred[i], checks) IN
        /\ view' = [view EXCEPT ![o].t = i]
        /\ lastT' = [lastT EXCEPT ![o] = transferred[i]]
        /\ call' = SizedQuery("remaining", FALSE, r.ret, transferred[i], r.fault)
    /\ UNCHANGED <<size, transferred, complete, wpc, reader, writer, buf, res,
                   outcome, handle, start_time, now, sawTrue, fpc, finishRet>>

\* fraction_transferred (lines 310-312).
FractionTransferred(o) ==
    /\ Borrow
    /\ \E i \in ReadableTransferred(o) :
        LET f == FractionOf(transferred[i], size) IN
        /\ view' = [view EXCEPT ![o].t = i]
        /\ lastT' = [lastT EXCEPT ![o] = transferred[i]]
        /\ call' = SizedQuery("fraction_transferred", FALSE, f.ret,
                              transferred[i], f.fault)
    /\ UNCHANGED <<size, transferred, complete, wpc, reader, writer, buf, res,
                   outcome, handle, start_time, now, sawTrue, fpc, finishRet>>

\* eta (lines 335-345): the counter is loaded once and cached.
Eta(o) ==
    /\ Borrow
    /\ \E i \in ReadableTransferred(o), checks \in OverflowChecks :
        LET e == EtaOf(size, transferred[i], now - start_time, checks) IN
        /\ view' = [view EXCEPT ![o].t = i]
        /\ lastT' = [lastT EXCEPT ![o] = transferred[i]]
        /\ call' = SizedQuery("eta", e.flag, e.ret, transferred[i], e.fault)
    /\ UNCHANGED <<size, transferred, complete, wpc, reader, writer, buf, res,
                   outcome, handle, start_time, now, sawTrue, fpc, finishRet>>

\* Deref for SizedTransfer (lines 348-358): &self.inner, so that every &self
\* method of Transfer is called on the SizedTransfer as it is on the inner
\* Transfer.
Deref(o) ==
    \/ IsComplete(o)
    \/ Transferred(o)
    \/ RunningTime(o)
    \/ Speed(o)

\* SizedTransfer::finish (lines 291-293): self.inner.finish().
SizedFinish ==
    \/ FinishCall
    \/ FinishJoin

SizedNext ==
    \/ New
    \/ Tick
    \/ Worker
    \/ \E o \in SizedObservers : Deref(o)
    \/ \E o \in SizedObservers : Size(o)
    \/ \E o \in SizedObservers : Remaining(o)
    \/ \E o \in SizedObservers : FractionTransferred(o)
    \/ \E o \in SizedObservers : Eta(o)
    \/ SizedFinish

SizedSpec == SizedInit /\ [][SizedNext]_vars

\* ------------------------------------------------------------------ claims
FlagSet == Last(complete).val

WorkerEnded == wpc \in {"done", "panicked"}

C2_TransferredMonotonic ==
    call.op = "transferred" /\ call.prev # -1 => call.ret >= call.prev

\* Two successive polls with a publish seen in between.
C2_Witness ==
    /\ call.op = "transferred"
    /\ call.prev >= 0
    /\ call.ret > call.prev

\* C3 (as claimed): once the flag is set, the counter holds the number of
\* bytes that went from the source into the sink, on every outcome.
C3_FinalCountIsBytesCopied ==
    FlagSet => Last(transferred) = hist.bytesWritten

\* C4 (as claimed): a worker that has ended, in whatever way, has set the
\* completion flag (nobody else ever sets it).
C4_EndedImpliesFlagSet ==
    WorkerEnded => FlagSet

\* C5: after a true is_complete(), transferred() returns the final count, the
\* sum of the published deltas; once the flag is set the worker is past the
\* copy, so that no publish follows.
C5_CompleteSeesFinalCount ==
    /\ call.op = "transferred" /\ call.pastTrue =>
        /\ call.ret = Last(transferred)
        /\ call.ret = Sum(hist.published)
    /\ FlagSet =>
        /\ wpc \in {"ret", "done"}
        /\ Last(transferred) = Sum(hist.published)

\* A transferred() after a true is_complete(), with bytes published.
C5_Witness ==
    /\ call.op = "transferred"
    /\ call.pastTrue
    /\ call.ret > 0

\* C6: finish() has returned or unwound only if the worker has ended, and
\* has returned only if the flag is set; after a copy without I/O failure it
\* returns Ok of the reader and writer given to new(), after a failed copy
\* Err of that failure's error.
C6_FinishAfterWorker ==
    /\ fpc \in {"returned", "panicked"} => WorkerEnded
    /\ fpc = "returned" =>
        /\ FlagSet
        /\ hist.ioFailure = "-" =>
            finishRet = Ok(hist.given.reader, hist.given.writer)
        /\ hist.ioFailure # "-" => finishRet = Err(hist.ioFailure)

\* finish() handed back the reader and the writer of a copy that moved bytes.
C6_Witness ==
    /\ fpc = "returned"
    /\ finishRet.kind = "Ok"
    /\ hist.bytesWritten > 0

\* C7 (as claimed): a finish() called after is_complete() returned true has
\* no worker step to wait for.
C7_FinishImmediate ==
    fpc = "joining" /\ hist.finishSawTrue => JoinReady

\* C8: an I/O failure sets the flag as a success does, is captured once, in
\* res, and reaches the caller only as the Err that finish() returns: no
\* query returns it and finish() does not panic on it.
C8_FailureOnlyThroughFinish ==
    /\ wpc \in {"ret", "done"} => FlagSet
    /\ hist.failures <= 1
    /\ hist.failures = 1 <=> hist.ioFailure # "-"
    /\ hist.ioFailure # "-" =>
        /\ res = Err(hist.ioFailure)
        /\ wpc \in {"store", "ret", "done"}
        /\ fpc # "panicked"
        /\ fpc = "returned" => finishRet = Err(hist.ioFailure)
    /\ call.op # "none" => call.ret \in Nat /\ call.flag \in BOOLEAN

\* The sink failed, an observer saw the transfer complete, then finish()
\* returned the error.
C8_Witness ==
    /\ fpc = "returned"
    /\ hist.finishSawTrue
    /\ finishRet \in {Err(e) : e \in WriteErrors}

\* C9 (as claimed): after a worker panic finish() returns to its caller, with
\* an outcome that tells the fault from an I/O error.
C9_WorkerFaultReturned ==
    wpc = "panicked" /\ fpc \notin {"idle", "joining"} =>
        fpc = "returned" /\ finishRet.kind = "Panic"

\* C10: finish() runs at most once, the worker's outcome is delivered at
\* most once and is gone from the JoinHandle afterwards, and no query is
\* made on a handle that finish() has taken.
C10_ConsumedOnce ==
    /\ hist.finishCalls <= 1
    /\ hist.delivered <= 1
    /\ hist.finishCalls = 1 <=> handle = "consumed"
    /\ ~hist.queriedAfterFinish
    /\ fpc = "returned" => hist.delivered = 1 /\ outcome = NoResult
    /\ hist.delivered = 1 => fpc = "returned"

\* finish() took the handle after it had been queried, and delivered.
C10_Witness ==
    /\ handle = "consumed"
    /\ hist.delivered = 1
    /\ call.op # "none"

\* The time that had passed since construction when the latest query ran is
\* one of these (the clock only advances).
ElapsedSoFar == 0 .. (now - start_time)

\* C11 (as claimed): while the clock still reads the start time,
\* running_time() is 0, and the latest speed() returned 0.
C11_SpeedZeroAtTimeZero ==
    call.op = "speed" /\ now = start_time =>
        call.ret = 0 /\ ~call.saturated

\* C12 (as claimed): a remaining() that loaded a counter value above the
\* size returned 0, with no panic and no wrap-around.
C12_RemainingSaturates ==
    call.op = "remaining" /\ call.read > size =>
        call.ret = 0 /\ call.fault = "-"

\* C13: a remaining() that loaded a counter value of at most the size
\* returned size minus that value: the size itself for 0, and 0 for the size.
C13_RemainingPlusTransferred ==
    call.op = "remaining" /\ call.read <= size =>
        /\ call.fault = "-"
        /\ call.ret + call.read = size
        /\ call.read = 0 => call.ret = size
        /\ call.read = size => call.ret = 0

\* remaining() in the middle of a transfer that fits the size.
C13_Witness ==
    /\ call.op = "remaining"
    /\ call.read > 0
    /\ call.read < size
    /\ call.ret > 0

\* C14 (as claimed): eta() returned None exactly for a loaded counter value
\* of 0, and otherwise Some of elapsed / transferred * (size - transferred)
\* for that one value.
C14_EtaFromOneRead ==
    call.op = "eta" =>
        /\ ~call.flag <=> call.read = 0
        /\ call.read > 0 =>
            /\ call.fault = "-"
            /\ \E secs \in ElapsedSoFar : call.ret = secs * (size - call.read)

\* C15 (as claimed): fraction_transferred() returned a fraction ret / size
\* between 0.0 and 1.0, 0.0 for a counter of 0 and 1.0 for a counter equal to
\* the size.
C15_FractionInUnitInterval ==
    call.op = "fraction_transferred" =>
        /\ call.fault = "-"
        /\ 0 <= call.ret /\ call.ret <= size
        /\ call.read = 0 => call.ret = 0
        /\ call.read = size => call.ret = size /\ size # 0

\* C16 (as claimed): with a declared size of 0, fraction_transferred()
\* returned a number, neither NaN nor an infinity.
C16_FractionDefinedForSizeZero ==
    call.op = "fraction_transferred" /\ size = 0 => call.fault = "-"

\* C17 (as claimed): every publish has a delta above 0 and raises the
\* counter.
C17_NoZeroPublish ==
    \A i \in 1 .. Len(hist.published) :
        hist.published[i] > 0 /\ transferred[i + 1] > transferred[i]

\* C17 (amended): the worker publishes once per read that returned Ok, with
\* the read's byte count as the delta; a publish for a non-empty chunk raises
\* the counter, and the one zero delta is that of the read that reported the
\* end of the stream, which leaves the counter as it is.
C17_PublishPerRead ==
    /\ Len(transferred) = Len(hist.published) + 1
    /\ Sum(hist.published) = hist.bytesRead
    /\ \A i \in 1 .. Len(hist.published) :
        /\ transferred[i + 1] = transferred[i] + hist.published[i]
        /\ hist.published[i] > 0 => transferred[i + 1] > transferred[i]
        /\ hist.published[i] = 0 => i = Len(hist.published) /\ res.kind = "Ok"
    /\ res.kind = "Ok" =>
        /\ hist.published # <<>>
        /\ Last(hist.published) = 0

\* A chunk was published, then the end of the stream with a zero delta.
C17_Witness ==
    /\ Len(hist.published) >= 2
    /\ hist.published[1] > 0
    /\ Last(hist.published) = 0

\* A query on the SizedTransfer, base or sized.
QueryStep ==
    \E o \in SizedObservers :
        Deref(o) \/ Size(o) \/ Remaining(o) \/ FractionTransferred(o) \/ Eta(o)

\* C18: a query leaves the counter, the flag, the copy's result and the
\* worker's own state as they are, and only a worker step changes the
\* counter, the flag or the result (finish() alone takes the stored outcome);
\* on a live handle every query can be made, in whatever state the worker
\* is; and a worker that has not ended can always take its next step.
C18_QueriesOnlyRead ==
    /\ [][QueryStep =>
            UNCHANGED <<transferred, complete, res, outcome, wpc, buf, reader,
                        writer, size>>]_vars
    /\ [][transferred' # transferred \/ complete' # complete \/ res' # res =>
            Worker]_vars
    /\ [][outcome' # outcome => Worker \/ FinishJoin]_vars
    /\ [](handle = "live" =>
            \A o \in SizedObservers :
                /\ ENABLED IsComplete(o)
                /\ ENABLED Transferred(o)
                /\ ENABLED RunningTime(o)
                /\ ENABLED Speed(o)
                /\ ENABLED Size(o)
                /\ ENABLED Remaining(o)
                /\ ENABLED FractionTransferred(o)
                /\ ENABLED Eta(o))
    /\ [](~WorkerEnded => ENABLED Worker)

\* eta() answered while the worker held a chunk it had read and not written.
C18_Witness ==
    /\ call.op = "eta"
    /\ call.flag
    /\ wpc = "write"

\* C19: on a SizedTransfer, size() returns the size given to new(), which
\* never changes; is_complete(), transferred() and speed() return what the
\* inner Transfer's flag, counter and clock give; finish() returns the inner
\* worker's outcome.
C19_SizedDelegates ==
    /\ size = hist.given.size
    /\ call.op = "size" => call.ret = hist.given.size
    /\ call.op = "is_complete" =>
        \E j \in 1 .. Len(complete) : call.flag = complete[j].val
    /\ call.op = "transferred" =>
        \E i \in 1 .. Len(transferred) : call.ret = transferred[i]
    /\ call.op = "speed" =>
        \E i \in 1 .. Len(transferred), secs \in ElapsedSoFar :
            SpeedOf(transferred[i], secs) =
                [ret |-> call.ret, saturated |-> call.saturated]
    /\ fpc = "returned" =>
        finishRet = IF res.kind = "Ok"
                    THEN Ok(hist.given.reader, hist.given.writer)
                    ELSE res

\* size() asked for after the stream had passed the declared size.
C19_Witness ==
    /\ call.op = "size"
    /\ size > 0
    /\ Last(transferred) > size

\* C20 (as claimed): eta() returned None or a duration that is finite, not
\* negative and not computed from a wrapped remaining count, and did not
\* panic.
C20_EtaNeverFaults ==
    call.op = "eta" => call.fault = "-" /\ call.ret >= 0

====
